---- MODULE Spec2Model ----
(***************************************************************************)
(* Model of templates/apps/egui/src/lib.rs: the egui + wgpu + winit demo   *)
(* application.  main() acquires window, surface, adapter, device and      *)
(* surface configuration, then hands a closure to event_loop.run; the      *)
(* closure is modelled by Callback, one atomic step per event.  Other      *)
(* threads call ExampleRepaintSignal::request_repaint.                     *)
(***************************************************************************)
EXTENDS Integers, Sequences, FiniteSets

\* Bounds of the model.
MaxEvents == 3      \* platform events delivered to the callback
MaxCalls == 2       \* request_repaint calls made, over all threads

\* Threads holding a clone of the repaint signal.
Threads == {1, 2}

\* PhysicalSize values: the size requested at lines 51-54 and another the
\* platform may report.
Sizes == { [width |-> 1280, height |-> 720],
           [width |-> 720, height |-> 1280] }

\* The measured frame time (line 151), one representative value.
FrameTimes == {16}

NoSize == [width |-> 0, height |-> 0]

\* Events winit hands to the closure.  The first group are window events.
WindowEvents == {"Resized", "CloseRequested", "CursorMoved", "Focused"}
PlatformEvents == WindowEvents \cup
    {"RedrawRequested", "MainEventsCleared", "NewEvents", "DeviceEvent",
     "Suspended", "Resumed"}

VARIABLES
    phase,               \* position of the process
    abortAt,             \* the unwrap that panicked, "none" if none
    obtained,            \* resources obtained by main, in order
    adapter,             \* outcome of request_adapter
    device,              \* outcome of request_device
    adapterRequests,     \* number of request_adapter calls
    fallbackRequested,   \* force_fallback_adapter of any request made
    window_size,         \* window.inner_size()
    surface_config,      \* surface_config.width / height
    configured,          \* size of the last surface.configure call
    control_flow,        \* *control_flow as the closure leaves it
    previous_frame_time, \* "None" or the last frame time
    screen_descriptor,   \* physical size of the last ScreenDescriptor
    egui_events,         \* events held by egui_winit::State, not yet taken
    forwarded,           \* number of state.on_event calls
    invocations,         \* number of closure invocations
    platformEvents,      \* number of platform events delivered
    qualifying,          \* number of redraw-triggering events delivered
    lastEvent,           \* event of the last invocation
    lastAcquire,         \* get_current_texture of the last invocation
    lastExecute,         \* egui_rpass.execute of the last invocation
    trace,               \* library calls of the last invocation, in order
    acquires, inputsTaken, begun, ended, submits, presents, skipped,
    closeSeen,           \* a CloseRequested has been handled
    userQueue,           \* RequestRedraw events sent and not yet delivered
    sent,                \* RequestRedraw events accepted by the proxy
    userRedraws,         \* redraw attempts made for UserEvent(RequestRedraw)
    mutex,               \* holder of the proxy mutex, 0 when free
    pc,                  \* position of each thread in request_repaint
    calls,               \* number of request_repaint calls started
    result               \* outcome of each thread's last call

startVars == <<abortAt, obtained, adapter, device, adapterRequests,
               fallbackRequested, window_size>>
loopVars == <<surface_config, configured, control_flow, previous_frame_time,
              screen_descriptor, egui_events, forwarded, invocations,
              platformEvents, qualifying, lastEvent, lastAcquire, lastExecute,
              trace, acquires, inputsTaken, begun, ended, submits, presents,
              skipped, closeSeen, userRedraws>>
threadVars == <<userQueue, sent, mutex, pc, calls, result>>
vars == <<phase, startVars, loopVars, threadVars>>

Count(s, x) == Cardinality({i \in DOMAIN s : s[i] = x})

Init ==
    /\ phase = "start"
    /\ abortAt = "none"
    /\ obtained = <<>>
    /\ adapter = "unrequested"
    /\ device = "unrequested"
    /\ adapterRequests = 0
    /\ fallbackRequested = FALSE
    /\ window_size = NoSize
    /\ surface_config = NoSize
    /\ configured = NoSize
    /\ control_flow = "Poll"
    /\ previous_frame_time = "None"
    /\ screen_descriptor = NoSize
    /\ egui_events = 0
    /\ forwarded = 0
    /\ invocations = 0
    /\ platformEvents = 0
    /\ qualifying = 0
    /\ lastEvent = "none"
    /\ lastAcquire = "none"
    /\ lastExecute = "none"
    /\ trace = <<>>
    /\ acquires = 0
    /\ inputsTaken = 0
    /\ begun = 0
    /\ ended = 0
    /\ submits = 0
    /\ presents = 0
    /\ skipped = 0
    /\ closeSeen = FALSE
    /\ userQueue = 0
    /\ sent = 0
    /\ userRedraws = 0
    /\ mutex = 0
    /\ pc = [t \in Threads |-> "idle"]
    /\ calls = 0
    /\ result = [t \in Threads |-> "none"]

----------------------------------------------------------------------------
\* main(), lines 46-110.

\* Option/Result::unwrap: the value on success, a panic otherwise.
Unwrap_Ignore(ok, next) == next
Unwrap(ok, next) == IF ok THEN next ELSE "aborted"

PanicSite(ok, site) == IF ok THEN abortAt ELSE site

\* The phase from which event_loop.run is called.
LoopEntryReady(p) == p = "configured"

\* Lines 47-56: WindowBuilder ... .build(&event_loop).unwrap().
BuildWindow ==
    /\ phase = "start"
    /\ \E ok \in BOOLEAN, size \in Sizes :
        /\ phase' = Unwrap(ok, "window")
        /\ abortAt' = PanicSite(ok, "window")
        /\ window_size' = IF ok THEN size ELSE window_size
        /\ obtained' = IF ok THEN Append(obtained, "window") ELSE obtained
    /\ UNCHANGED <<adapter, device, adapterRequests, fallbackRequested,
                   loopVars, threadVars>>

\* Lines 61-63: Instance::new and create_surface.
CreateSurface ==
    /\ phase = "window"
    /\ phase' = "surface"
    /\ obtained' = Append(obtained, "surface")
    /\ UNCHANGED <<abortAt, adapter, device, adapterRequests, fallbackRequested,
                   window_size, loopVars, threadVars>>

\* Lines 66-71: block_on(request_adapter(..)).unwrap().
RequestAdapter ==
    /\ phase = "surface"
    /\ \E found \in BOOLEAN :
        /\ phase' = Unwrap(found, "adapter")
        /\ abortAt' = PanicSite(found, "adapter")
        /\ adapter' = IF found THEN "some" ELSE "none"
        /\ obtained' = IF found THEN Append(obtained, "adapter") ELSE obtained
    /\ adapterRequests' = adapterRequests + 1
    /\ fallbackRequested' = FALSE
    /\ UNCHANGED <<device, window_size, loopVars, threadVars>>

\* Lines 73-81: block_on(request_device(..)).unwrap().
RequestDevice ==
    /\ phase = "adapter"
    /\ \E ok \in BOOLEAN :
        /\ phase' = Unwrap(ok, "device")
        /\ abortAt' = PanicSite(ok, "device")
        /\ device' = IF ok THEN "ok" ELSE "err"
        /\ obtained' = IF ok THEN Append(obtained, "device") ELSE obtained
    /\ UNCHANGED <<adapter, adapterRequests, fallbackRequested, window_size,
                   loopVars, threadVars>>

\* Lines 83-92: inner_size, get_preferred_format(..).unwrap(), the
\* SurfaceConfiguration and surface.configure.
ConfigureSurface ==
    /\ phase = "device"
    /\ \E formatOk \in BOOLEAN :
        /\ phase' = Unwrap(formatOk, "configured")
        /\ abortAt' = PanicSite(formatOk, "format")
        /\ surface_config' = IF formatOk THEN window_size ELSE surface_config
        /\ configured' = IF formatOk THEN window_size ELSE configured
        /\ obtained' = IF formatOk THEN Append(obtained, "surface_config")
                       ELSE obtained
    /\ UNCHANGED <<adapter, device, adapterRequests, fallbackRequested,
                   window_size, control_flow, previous_frame_time,
                   screen_descriptor, egui_events, forwarded, invocations,
                   platformEvents, qualifying, lastEvent, lastAcquire,
                   lastExecute, trace, acquires, inputsTaken, begun, ended,
                   submits, presents, skipped, closeSeen, userRedraws,
                   threadVars>>

\* Lines 94-110: repaint signal, render pass, demo app, egui state, and the
\* call of event_loop.run.
EnterLoop ==
    /\ LoopEntryReady(phase)
    /\ phase' = "running"
    /\ UNCHANGED <<startVars, loopVars, threadVars>>

----------------------------------------------------------------------------
\* The closure given to event_loop.run, lines 110-205.

\* Line 185: the events of the redraw arm.
IsRedrawEvent_NoUser(event) == event \in {"RedrawRequested", "MainEventsCleared"}
IsRedrawEvent_Resized(event) ==
    event \in {"RedrawRequested", "UserEvent", "MainEventsCleared", "Resized"}
IsRedrawEvent(event) ==
    event \in {"RedrawRequested", "UserEvent", "MainEventsCleared"}

\* Lines 111 and 195-197: the value left in *control_flow.
ControlFlowAfter_NoExit(event) == "Wait"
ControlFlowAfter_Poll(event) ==
    IF event = "CloseRequested" THEN "Exit"
    ELSE IF event = "MainEventsCleared" THEN "Poll" ELSE "Wait"
ControlFlowAfter_AlwaysExit(event) == "Exit"
ControlFlowAfter(event) == IF event = "CloseRequested" THEN "Exit" ELSE "Wait"

\* Lines 188-201: the window events given to state.on_event.
IsForwarded(event) ==
    event \in WindowEvents /\ event \notin {"Resized", "CloseRequested"}

\* Lines 191-192: surface_config after a Resized(size).
ResizedConfig_WidthOnly(cfg, size) ==
    [width |-> size.width, height |-> cfg.height]
ResizedConfig(cfg, size) == [width |-> size.width, height |-> size.height]

\* Lines 113-183: the library calls of one redraw, in order.  A failed
\* acquisition logs and returns (116-119); execute(..).unwrap() panics on
\* Err (169-177).
RedrawSteps_NoReturn(acquireOk, executeOk) ==
    <<"get_current_texture">>
    \o (IF acquireOk THEN <<>> ELSE <<"eprintln">>)
    \o <<"create_view", "take_egui_input", "begin_frame", "update",
         "end_frame", "tessellate", "create_command_encoder",
         "update_texture", "update_user_textures", "update_buffers",
         "execute", "submit", "present">>
RedrawSteps_PresentFirst(acquireOk, executeOk) ==
    IF ~acquireOk THEN <<"get_current_texture", "eprintln">>
    ELSE <<"get_current_texture", "create_view", "take_egui_input",
           "begin_frame", "update", "end_frame", "tessellate",
           "create_command_encoder", "update_texture",
           "update_user_textures", "update_buffers", "execute">>
         \o (IF executeOk THEN <<"present", "submit">> ELSE <<"panic">>)
RedrawSteps_SubmitAnyway(acquireOk, executeOk) ==
    IF ~acquireOk THEN <<"get_current_texture", "eprintln">>
    ELSE <<"get_current_texture", "create_view", "take_egui_input",
           "begin_frame", "update", "end_frame", "tessellate",
           "create_command_encoder", "update_texture",
           "update_user_textures", "update_buffers", "execute",
           "submit", "present">>
RedrawSteps(acquireOk, executeOk) ==
    IF ~acquireOk THEN <<"get_current_texture", "eprintln">>
    ELSE <<"get_current_texture", "create_view", "take_egui_input",
           "begin_frame", "update", "end_frame", "tessellate",
           "create_command_encoder", "update_texture",
           "update_user_textures", "update_buffers", "execute">>
         \o (IF executeOk THEN <<"submit", "present">> ELSE <<"panic">>)

\* The phase after an invocation: a panic ends the process, LoopDestroyed is
\* the last event, and the loop starts shutting down once it reads Exit.
NextLoopPhase(p, event, panicked, cf) ==
    IF panicked THEN "aborted"
    ELSE IF event = "LoopDestroyed" THEN "destroyed"
    ELSE IF cf = "Exit" THEN "exiting"
    ELSE p

\* One invocation of the closure with `event`.  size is the payload of a
\* Resized; acquireOk, executeOk and frameTime are what the libraries and
\* the clock return during a redraw.
Callback(event, size, acquireOk, executeOk, frameTime) ==
    LET steps == IF IsRedrawEvent(event) THEN RedrawSteps(acquireOk, executeOk)
                 ELSE <<>>
        cf == ControlFlowAfter(event)
        panicked == Count(steps, "panic") > 0
        attempts == Count(steps, "get_current_texture")
        cfg == IF event = "Resized" THEN ResizedConfig(surface_config, size)
               ELSE surface_config
        fwd == IF IsForwarded(event) THEN 1 ELSE 0
    IN  /\ control_flow' = cf
        /\ trace' = steps
        /\ lastEvent' = event
        /\ invocations' = invocations + 1
        /\ qualifying' = qualifying
             + (IF event \in {"RedrawRequested", "UserEvent",
                              "MainEventsCleared"} THEN 1 ELSE 0)
        /\ lastAcquire' = IF attempts = 0 THEN "none"
                          ELSE IF acquireOk THEN "ok" ELSE "err"
        /\ lastExecute' = IF Count(steps, "execute") = 0 THEN "none"
                          ELSE IF executeOk THEN "ok" ELSE "err"
        /\ acquires' = acquires + attempts
        /\ skipped' = skipped + Count(steps, "eprintln")
        /\ inputsTaken' = inputsTaken + Count(steps, "take_egui_input")
        /\ begun' = begun + Count(steps, "begin_frame")
        /\ ended' = ended + Count(steps, "end_frame")
        /\ submits' = submits + Count(steps, "submit")
        /\ presents' = presents + Count(steps, "present")
        /\ userRedraws' = userRedraws
             + (IF event = "UserEvent" THEN attempts ELSE 0)
        /\ previous_frame_time' =
             IF Count(steps, "tessellate") > 0 THEN frameTime
             ELSE previous_frame_time
        /\ screen_descriptor' =
             IF Count(steps, "update_buffers") > 0 THEN surface_config
             ELSE screen_descriptor
        /\ surface_config' = cfg
        /\ configured' = IF event = "Resized" THEN cfg ELSE configured
        /\ forwarded' = forwarded + fwd
        /\ egui_events' = IF Count(steps, "take_egui_input") > 0 THEN 0
                          ELSE egui_events + fwd
        /\ closeSeen' = (closeSeen \/ event = "CloseRequested")
        /\ abortAt' = IF panicked THEN "execute" ELSE abortAt
        /\ phase' = NextLoopPhase(phase, event, panicked, cf)

LoopAlive == phase \in {"running", "exiting"}

\* The size a Resized carries; other events carry none.
Payload(event) == IF event = "Resized" THEN Sizes ELSE {NoSize}

\* execute is called, and can fail, only once the frame was acquired.
ExecuteOutcomes(acquireOk) == IF acquireOk THEN BOOLEAN ELSE {TRUE}

\* winit delivers a window, device or loop event.
Deliver(event) ==
    /\ LoopAlive
    /\ platformEvents < MaxEvents
    /\ platformEvents' = platformEvents + 1
    /\ \E size \in Payload(event), acquireOk \in BOOLEAN :
        \E executeOk \in ExecuteOutcomes(acquireOk), frameTime \in FrameTimes :
            /\ Callback(event, size, acquireOk, executeOk, frameTime)
            /\ window_size' = IF event = "Resized" THEN size ELSE window_size
    /\ UNCHANGED <<obtained, adapter, device, adapterRequests,
                   fallbackRequested, threadVars>>

\* winit delivers a RequestRedraw sent through the proxy.
DeliverUser ==
    /\ LoopAlive
    /\ userQueue > 0
    /\ userQueue' = userQueue - 1
    /\ \E acquireOk \in BOOLEAN :
        \E executeOk \in ExecuteOutcomes(acquireOk), frameTime \in FrameTimes :
            Callback("UserEvent", NoSize, acquireOk, executeOk, frameTime)
    /\ UNCHANGED <<obtained, adapter, device, adapterRequests,
                   fallbackRequested, window_size, platformEvents,
                   sent, mutex, pc, calls, result>>

\* After Exit winit delivers LoopDestroyed and drops the loop.
DeliverLoopDestroyed ==
    /\ phase = "exiting"
    /\ \E frameTime \in FrameTimes :
        Callback("LoopDestroyed", NoSize, TRUE, TRUE, frameTime)
    /\ UNCHANGED <<obtained, adapter, device, adapterRequests,
                   fallbackRequested, window_size, platformEvents, threadVars>>

\* event_loop.run never returns: the process exits.
ProcessExit ==
    /\ phase = "destroyed"
    /\ phase' = "exited"
    /\ UNCHANGED <<startVars, loopVars, threadVars>>

----------------------------------------------------------------------------
\* ExampleRepaintSignal::request_repaint, lines 23-27.

ProcessAlive == phase \in {"running", "exiting", "destroyed"}

\* Mutex::lock: granted when no thread holds the mutex.
LockAvailable(m) == m = 0

\* send_event(..).ok(): Ok enqueues the event, Err(EventLoopClosed) is
\* dropped by ok().
SendOutcome(alive) == IF alive THEN "sent" ELSE "discarded"

\* Line 25: self.0.lock().unwrap().  The clone of the signal reaches other
\* threads through the frame built at lines 130-142.
RepaintLock(t) ==
    /\ ProcessAlive
    /\ begun > 0
    /\ pc[t] = "idle"
    /\ calls < MaxCalls
    /\ LockAvailable(mutex)
    /\ mutex' = t
    /\ pc' = [pc EXCEPT ![t] = "locked"]
    /\ calls' = calls + 1
    /\ UNCHANGED <<phase, startVars, loopVars, userQueue, sent, result>>

\* Line 25: send_event(Event::RequestRedraw).ok(), then the guard is dropped.
RepaintSend(t) ==
    /\ ProcessAlive
    /\ pc[t] = "locked"
    /\ LET outcome == SendOutcome(LoopAlive)
       IN  /\ result' = [result EXCEPT ![t] = outcome]
           /\ userQueue' = IF outcome = "sent" THEN userQueue + 1 ELSE userQueue
           /\ sent' = IF outcome = "sent" THEN sent + 1 ELSE sent
    /\ mutex' = 0
    /\ pc' = [pc EXCEPT ![t] = "idle"]
    /\ UNCHANGED <<phase, startVars, loopVars, calls>>

----------------------------------------------------------------------------
Next ==
    \/ BuildWindow
    \/ CreateSurface
    \/ RequestAdapter
    \/ RequestDevice
    \/ ConfigureSurface
    \/ EnterLoop
    \/ \E event \in PlatformEvents : Deliver(event)
    \/ DeliverUser
    \/ DeliverLoopDestroyed
    \/ ProcessExit
    \/ \E t \in Threads : RepaintLock(t)
    \/ \E t \in Threads : RepaintSend(t)

Spec == Init /\ [][Next]_vars

\* winit wakes up for every event sent through a proxy and hands it to the
\* closure while the loop lives.
LiveSpec == Spec /\ WF_vars(DeliverUser)

----------------------------------------------------------------------------
\* Properties.

RedrawEvents == {"RedrawRequested", "UserEvent", "MainEventsCleared"}
LoopPhases == {"running", "exiting", "destroyed", "exited"}

\* The steps of a redraw that the specification names, in its order.
NamedOrder ==
    <<"get_current_texture", "take_egui_input", "begin_frame", "update",
      "end_frame", "tessellate", "update_texture", "update_user_textures",
      "update_buffers", "execute", "submit", "present">>
IsNamed(step) == \E i \in DOMAIN NamedOrder : NamedOrder[i] = step
Named(s) == SelectSeq(s, IsNamed)

\* C1: an invocation with WindowEvent::CloseRequested leaves the control
\* flow at Exit, whatever was handled before.
CloseRequestedExits == lastEvent = "CloseRequested" => control_flow = "Exit"

CloseAfterFramesWitness ==
    /\ lastEvent = "CloseRequested"
    /\ control_flow = "Exit"
    /\ presents >= 1
    /\ skipped >= 1

\* C2: a redraw whose get_current_texture fails only logs: no egui input is
\* taken, no UI frame is begun or ended, nothing is submitted or presented,
\* previous_frame_time and surface_config keep their values, the process
\* does not abort, and the control flow left behind is Wait.
SkippedFrameLeavesLoopRunning ==
    [][(invocations' = invocations + 1 /\ lastAcquire' = "err") =>
          /\ trace' = <<"get_current_texture", "eprintln">>
          /\ UNCHANGED <<inputsTaken, begun, ended, submits, presents,
                         previous_frame_time, surface_config, configured,
                         egui_events, abortAt, phase>>
          /\ phase' \in {"running", "exiting"}
          /\ control_flow' = "Wait"]_vars

PresentAfterSkipWitness ==
    /\ skipped >= 1
    /\ lastAcquire = "ok"
    /\ lastExecute = "ok"
    /\ Count(trace, "present") = 1
    /\ phase = "running"

\* C3 as stated: a redraw whose acquisition succeeds always runs to
\* completion and presents, and never aborts the process.
AcquisitionIsOnlyRedrawFailure ==
    lastAcquire = "ok" =>
        /\ Count(trace, "present") = 1
        /\ phase # "aborted"
        /\ abortAt = "none"

\* C3 amended: a redraw whose acquisition succeeds presents the frame when
\* egui_rpass.execute returns Ok; when execute returns Err the unwrap panics
\* and the process aborts with nothing submitted or presented.  A failed
\* execute is the only abort once the loop has been entered.
ExecuteFailureAbortsRedraw ==
    /\ lastAcquire = "ok" =>
        /\ lastExecute \in {"ok", "err"}
        /\ lastExecute = "ok" =>
            /\ Count(trace, "present") = 1
            /\ phase # "aborted"
            /\ abortAt = "none"
        /\ lastExecute = "err" =>
            /\ Count(trace, "submit") = 0
            /\ Count(trace, "present") = 0
            /\ phase = "aborted"
            /\ abortAt = "execute"
    /\ (phase = "aborted" /\ invocations > 0) =>
        /\ abortAt = "execute"
        /\ lastAcquire = "ok"
        /\ lastExecute = "err"

ExecutePanicWitness ==
    /\ abortAt = "execute"
    /\ phase = "aborted"
    /\ presents >= 1
    /\ lastExecute = "err"

\* C4: a missing adapter or a failed device request aborts the process
\* before any event is handled or any frame acquired, submitted or
\* presented; one adapter request is made, never with the fallback adapter;
\* the loop is entered only after window, surface, adapter, device and
\* surface configuration were obtained in that order.
StartupAllOrNothing ==
    /\ (adapter = "none" \/ device = "err") =>
        /\ phase = "aborted"
        /\ invocations = 0
        /\ acquires = 0
        /\ submits = 0
        /\ presents = 0
        /\ control_flow = "Poll"
    /\ adapterRequests <= 1
    /\ ~fallbackRequested
    /\ (phase \in LoopPhases \/ invocations > 0) =>
        obtained = <<"window", "surface", "adapter", "device", "surface_config">>

DeviceFailureWitness ==
    /\ adapter = "some"
    /\ device = "err"
    /\ phase = "aborted"
    /\ abortAt = "device"

\* C5: after every invocation of the closure the control flow is Wait or
\* Exit, never Poll.
NeverPolls == invocations > 0 => control_flow \in {"Wait", "Exit"}

WaitAfterSkippedFrameWitness ==
    /\ invocations > 0
    /\ lastAcquire = "err"
    /\ control_flow = "Wait"

\* C6 as stated: every redraw whose acquisition succeeds performs all the
\* named steps, acquire through present, in order and once each.
EveryAcquiredRedrawPresents == lastAcquire = "ok" => Named(trace) = NamedOrder

\* C6 amended: a redraw whose acquisition succeeds performs the named steps
\* in order and once each, through present when execute returns Ok and
\* through execute only when it returns Err; across events begin_frame and
\* end_frame are matched, and every completed redraw has exactly one submit
\* and one present.
RedrawOrder ==
    LET completed == acquires - skipped - (IF abortAt = "execute" THEN 1 ELSE 0)
    IN  /\ lastAcquire = "ok" =>
            Named(trace) = IF lastExecute = "ok" THEN NamedOrder
                           ELSE SubSeq(NamedOrder, 1, Len(NamedOrder) - 2)
        /\ begun = ended
        /\ begun = acquires - skipped
        /\ inputsTaken = begun
        /\ submits = completed
        /\ presents = completed

TwoFramesWitness ==
    /\ presents >= 2
    /\ lastAcquire = "ok"
    /\ lastExecute = "ok"
    /\ Named(trace) = NamedOrder

\* C7: calls of request_repaint hold the mutex one at a time; a call made
\* while the loop lives enqueues exactly one RequestRedraw, a call made
\* after the loop is gone drops the error and returns; and while the loop
\* keeps running every enqueued event leads to a redraw attempt.
RepaintSignalIsThreadSafe ==
    /\ [](/\ Cardinality({t \in Threads : pc[t] = "locked"}) <= 1
          /\ \A t \in Threads : pc[t] = "locked" => mutex = t
          /\ \A t \in Threads : result[t] \in {"none", "sent", "discarded"})
    /\ [][\A t \in Threads : (pc[t] = "locked" /\ pc'[t] = "idle") =>
            IF phase \in {"running", "exiting"}
            THEN userQueue' = userQueue + 1 /\ result'[t] = "sent"
            ELSE userQueue' = userQueue /\ result'[t] = "discarded"]_vars
    /\ \A n \in 1..MaxCalls :
          (sent >= n) ~> (userRedraws >= n \/ phase # "running")

RepaintDeliveredAndDiscardedWitness ==
    /\ userRedraws >= 1
    /\ \E t \in Threads : result[t] = "discarded"
    /\ \E t \in Threads : result[t] = "sent"

\* C8: each invocation with RedrawRequested, UserEvent(RequestRedraw) or
\* MainEventsCleared makes exactly one redraw attempt and an invocation
\* with any other event makes none, so the acquisition attempts equal the
\* qualifying events delivered.
OneRedrawPerQualifyingEvent ==
    /\ acquires = qualifying
    /\ lastEvent \in RedrawEvents => Count(trace, "get_current_texture") = 1
    /\ lastEvent \notin RedrawEvents => trace = <<>>

ResizeBetweenRedrawsWitness ==
    /\ qualifying >= 2
    /\ invocations > qualifying
    /\ lastEvent \in {"Resized", "CloseRequested"}

\* C9: once configured, surface_config is the size of the last
\* surface.configure call, which is the window's initial inner size and
\* then the size of the latest Resized; a redraw's ScreenDescriptor has
\* that size; Resized and CloseRequested are not forwarded to the egui
\* state, the other window events are, and these leave surface_config alone
\* and the control flow at Wait.
SurfaceConfigTracksResize ==
    /\ [](Len(obtained) = 5 =>
            /\ surface_config = configured
            /\ configured = window_size
            /\ lastAcquire = "ok" => screen_descriptor = configured)
    /\ [][invocations' = invocations + 1 =>
            /\ lastEvent' \in {"Resized", "CloseRequested"} =>
                  forwarded' = forwarded
            /\ lastEvent' \in {"CursorMoved", "Focused"} =>
                  /\ forwarded' = forwarded + 1
                  /\ control_flow' = "Wait"
            /\ lastEvent' \notin WindowEvents => forwarded' = forwarded
            /\ lastEvent' # "Resized" =>
                  UNCHANGED <<surface_config, configured>>]_vars

ResizeAfterRedrawWitness ==
    /\ lastEvent = "Resized"
    /\ screen_descriptor # NoSize
    /\ screen_descriptor # surface_config
    /\ forwarded >= 1

\* C10 as stated: once a CloseRequested has been handled every later
\* invocation leaves the control flow at Exit and acquires no frame.
ExitIsFinal == closeSeen => (control_flow = "Exit" /\ lastAcquire = "none")

\* C10 amended: the invocation that handles CloseRequested leaves Exit, but
\* the closure does not keep it: a later invocation with any other event
\* leaves Wait, and a later qualifying event still makes a redraw attempt.
ClosureResetsControlFlowAfterClose ==
    closeSeen =>
        /\ control_flow = IF lastEvent = "CloseRequested" THEN "Exit"
                          ELSE "Wait"
        /\ lastEvent \in RedrawEvents => lastAcquire \in {"ok", "err"}

FrameAfterCloseWitness ==
    /\ closeSeen
    /\ lastEvent = "MainEventsCleared"
    /\ Count(trace, "present") = 1
    /\ control_flow = "Wait"
    /\ phase = "exiting"

====
